---- MODULE Spec2Model ----
(***************************************************************************)
(* Model of src/walletTracker.ts: the windowed aggregation pipeline of     *)
(* trackProfitablePumpFunTraders (signature pagination, per-transaction    *)
(* fetch with withRetry, classification, ledger update, displayResults).   *)
(*                                                                         *)
(* Units.  Time is kept in milliseconds as in the source, scaled so that   *)
(* one source hour is one model second (the window ratios 24h : 7d : 30d : *)
(* 1y are kept and every value fits TLC's integers).  blockTime is in      *)
(* seconds and is multiplied by 1000 as in the source.  Native balances    *)
(* are in units of 10^6 lamports (0.001 SOL), so the source's test         *)
(* "change > 0.001" reads "change > DUST".  profit is kept in raw token    *)
(* units (the source divides each delta by 1e9); averageTradeSize is the   *)
(* exact quotient totalVolume / trades, kept as a reduced fraction.        *)
(***************************************************************************)
EXTENDS Integers, Sequences, FiniteSets, TLC

----------------------------------------------------------------------------
(* Program constants *)

MAX_RETRIES == 5
INITIAL_BACKOFF == 1000
BASE_DELAY == 100
MIN_TRADES == 3
TOP_TRADERS == 10
DUST == 1

\* 24h, 7d, 30d, 1y in milliseconds, one source hour scaled to one second
TIME_PERIODS == << 24 * 1000, 7 * 24 * 1000, 30 * 24 * 1000, 365 * 24 * 1000 >>

(* Bounds.  The paging constants are the source's 50 / 800 / 200 scaled     *)
(* down, and MAX_TRANSACTIONS (1000 at line 28, which no statement reads)  *)
(* is scaled with them: 5/4 of MAX_TRANSACTIONS_PER_INTERVAL, rounded up.  *)
(* Now is the value Date.now() returned at start-up.                       *)

BATCH_SIZE == 2
MAX_TRANSACTIONS_PER_INTERVAL == 3
SNAPSHOT_EVERY == 2
MAX_TRANSACTIONS == 4
Now == 9000000
MaxBalance == 1
NumRankWallets == 12
MaxPairs == 2

----------------------------------------------------------------------------
(* Values exchanged with the chain data provider *)

NoBlockTime == 0
NoOwner == 0
NoSignature == 0

\* blockTime values (seconds) a page entry may carry: missing, and the exact
\* boundary of the 24h window
BlockTimes == { NoBlockTime, (Now - TIME_PERIODS[1]) \div 1000 }

\* an error thrown by a provider call: is429 is error?.message?.includes('429'),
\* id tells error values apart
Error(is429, id) == [ is429 |-> is429, id |-> id ]

Tok(owner, hasAmount, amount) ==
    [ owner |-> owner, hasAmount |-> hasAmount, amount |-> amount ]

MkTx(exists, meta, hasPreTok, preTok, hasPostTok, postTok, hasBal, preBal, postBal) ==
    [ exists |-> exists, meta |-> meta,
      hasPreTok |-> hasPreTok, preTokenBalances |-> preTok,
      hasPostTok |-> hasPostTok, postTokenBalances |-> postTok,
      hasBal |-> hasBal, preBalances |-> preBal, postBalances |-> postBal ]

\* a transaction with all four balance lists
Trade(preTok, postTok, preBal, postBal) ==
    MkTx(TRUE, TRUE, TRUE, preTok, TRUE, postTok, TRUE, preBal, postBal)

NullTx == MkTx(FALSE, FALSE, FALSE, << >>, FALSE, << >>, FALSE, << >>, << >>)

\* the transactions getTransaction may return in the pipeline
TxInputs ==
    { NullTx,
      \* token balances unchanged: not a trade
      Trade(<< Tok(1, TRUE, 4) >>, << Tok(1, TRUE, 4) >>, << 5 >>, << 3 >>),
      \* owner 1 gains 1, owner 2 unchanged; native change 2
      Trade(<< Tok(1, TRUE, 4), Tok(2, TRUE, 7) >>,
            << Tok(1, TRUE, 5), Tok(2, TRUE, 7) >>, << 5 >>, << 3 >>),
      \* owner 1 loses 1, owner 2 gains 2, a pair without owner, a pair without
      \* post entry; native changes 3 and 1 (dust)
      Trade(<< Tok(1, TRUE, 4), Tok(2, TRUE, 0), Tok(NoOwner, TRUE, 1), Tok(2, TRUE, 1) >>,
            << Tok(1, TRUE, 3), Tok(2, TRUE, 2), Tok(NoOwner, TRUE, 9) >>,
            << 5, 8 >>, << 2, 9 >>) }

----------------------------------------------------------------------------
(* TransactionClassifier *)

Abs(x) == IF x < 0 THEN -x ELSE x

\* the guard of lines 94 and 257 on the index-aligned pair (pre[i], post[i])
PairPresent(tx, i) ==
    /\ i <= Len(tx.postTokenBalances)
    /\ tx.preTokenBalances[i].owner # NoOwner
    /\ tx.preTokenBalances[i].hasAmount
    /\ tx.postTokenBalances[i].hasAmount

PairChange(tx, i) ==
    tx.postTokenBalances[i].amount - tx.preTokenBalances[i].amount

isTradeTransaction(tx) ==
    /\ tx.exists /\ tx.meta /\ tx.hasPreTok /\ tx.hasPostTok
    /\ \E i \in 1 .. Len(tx.preTokenBalances) :
          PairPresent(tx, i) /\ Abs(PairChange(tx, i)) > 0

RECURSIVE SumChanges(_, _, _)
SumChanges(pre, post, i) ==
    IF i > Len(pre) THEN 0
    ELSE LET change == IF i <= Len(post) THEN Abs(post[i] - pre[i]) ELSE 0
         IN  (IF change > DUST THEN change ELSE 0) + SumChanges(pre, post, i + 1)

calculateTradeValue(tx) ==
    IF ~ (tx.exists /\ tx.meta /\ tx.hasBal) THEN 0
    ELSE SumChanges(tx.preBalances, tx.postBalances, 1)

----------------------------------------------------------------------------
(* LedgerAggregator: profitTraders is the sequence of records in insertion *)
(* order (the order Object.entries yields)                                 *)

RECURSIVE GCD(_, _)
GCD(a, b) == IF b = 0 THEN a ELSE GCD(b, a % b)

\* the quotient a / b (b > 0, a >= 0) as a reduced fraction
Quotient(a, b) == LET g == GCD(a, b) IN << a \div g, b \div g >>

NewTrader(address) ==
    [ address |-> address, profit |-> 0, trades |-> 0, totalVolume |-> 0,
      successfulTrades |-> 0, averageTradeSize |-> << 0, 1 >>,
      solBalance |-> 0, usdProfit |-> 0 ]

HasTrader(ledger, address) ==
    \E k \in 1 .. Len(ledger) : ledger[k].address = address

TraderIndex(ledger, address) ==
    CHOOSE k \in 1 .. Len(ledger) : ledger[k].address = address

\* UpdateTrader with the average computed only for a new record
UpdateTraderStale(trader, change, tradeValue) ==
    LET volume == trader.totalVolume + tradeValue
        trades == trader.trades + 1
    IN  [ trader EXCEPT
            !.profit = @ + change,
            !.trades = trades,
            !.totalVolume = volume,
            !.successfulTrades = IF change > 0 THEN @ + 1 ELSE @,
            !.averageTradeSize = IF trades = 1 THEN Quotient(volume, trades) ELSE @ ]

\* UpdateTrader with every trade counted as successful
UpdateTraderAnyWin(trader, change, tradeValue) ==
    LET volume == trader.totalVolume + tradeValue
        trades == trader.trades + 1
    IN  [ trader EXCEPT
            !.profit = @ + change,
            !.trades = trades,
            !.totalVolume = volume,
            !.successfulTrades = @ + 1,
            !.averageTradeSize = Quotient(volume, trades) ]

\* lines 272-281
UpdateTrader(trader, change, tradeValue) ==
    LET volume == trader.totalVolume + tradeValue
        trades == trader.trades + 1
    IN  [ trader EXCEPT
            !.profit = @ + change,
            !.trades = trades,
            !.totalVolume = volume,
            !.successfulTrades = IF change > 0 THEN @ + 1 ELSE @,
            !.averageTradeSize = Quotient(volume, trades) ]

\* ApplyPair with the record created before the test of line 259
ApplyPairEager(ledger, owner, change, tradeValue) ==
    LET withOwner == IF HasTrader(ledger, owner) THEN ledger
                     ELSE Append(ledger, NewTrader(owner))
        k == TraderIndex(withOwner, owner)
    IN  IF change = 0 THEN withOwner
        ELSE [ withOwner EXCEPT ![k] = UpdateTrader(@, change, tradeValue) ]

\* lines 259-282 for one pair whose guard (line 257) holds
ApplyPair(ledger, owner, change, tradeValue) ==
    IF change = 0 THEN ledger
    ELSE LET withOwner == IF HasTrader(ledger, owner) THEN ledger
                          ELSE Append(ledger, NewTrader(owner))
             k == TraderIndex(withOwner, owner)
         IN  [ withOwner EXCEPT ![k] = UpdateTrader(@, change, tradeValue) ]

\* lines 253-284
RECURSIVE ApplyPairs(_, _, _, _)
ApplyPairs(ledger, tx, tradeValue, i) ==
    IF i > Len(tx.preTokenBalances) THEN ledger
    ELSE ApplyPairs(
            IF PairPresent(tx, i)
            THEN ApplyPair(ledger, tx.preTokenBalances[i].owner, PairChange(tx, i), tradeValue)
            ELSE ledger,
            tx, tradeValue, i + 1)

\* Accepted without the test of line 248
AcceptedAnyValue(tx) ==
    /\ tx.exists /\ tx.meta
    /\ isTradeTransaction(tx)

\* lines 244-248: the transaction is passed on to the ledger update
Accepted(tx) ==
    /\ tx.exists /\ tx.meta
    /\ isTradeTransaction(tx)
    /\ calculateTradeValue(tx) # 0

\* lines 244-284, the body of the per-transaction try block after the fetch
ApplyTransaction(ledger, tx) ==
    IF ~ Accepted(tx) THEN ledger
    ELSE ApplyPairs(ledger, tx, calculateTradeValue(tx), 1)

\* the owners to whom a pair with a nonzero delta of tx is attributed
Attributed(tx) ==
    IF ~ Accepted(tx) THEN { }
    ELSE { tx.preTokenBalances[i].owner :
             i \in { j \in 1 .. Len(tx.preTokenBalances) :
                       PairPresent(tx, j) /\ PairChange(tx, j) # 0 } }

----------------------------------------------------------------------------
(* Ranker: the selection of displayResults, lines 320-327 *)

\* Eligible with a win rate of exactly 0.5 let through
EligibleFromHalf(data) ==
    /\ data.trades >= MIN_TRADES
    /\ data.profit > 0
    /\ 2 * data.successfulTrades >= data.trades

\* lines 322-324; successfulTrades / trades > 0.5 on integers
Eligible(data) ==
    /\ data.trades >= MIN_TRADES
    /\ data.profit > 0
    /\ 2 * data.successfulTrades > data.trades

RECURSIVE Filter(_)
Filter(ledger) ==
    IF ledger = << >> THEN << >>
    ELSE IF Eligible(Head(ledger)) THEN << Head(ledger) >> \o Filter(Tail(ledger))
         ELSE Filter(Tail(ledger))

\* comparator (a, b) => b.profit - a.profit: a stays before b unless it is > 0
Before(a, b) == b.profit - a.profit <= 0

\* stable insertion of x into a sorted sequence
RECURSIVE Insert(_, _)
Insert(sorted, x) ==
    IF sorted = << >> THEN << x >>
    ELSE IF Before(sorted[Len(sorted)], x) THEN Append(sorted, x)
         ELSE Append(Insert(SubSeq(sorted, 1, Len(sorted) - 1), x), sorted[Len(sorted)])

RECURSIVE SortByProfit(_)
SortByProfit(entries) ==
    IF entries = << >> THEN << >>
    ELSE Insert(SortByProfit(SubSeq(entries, 1, Len(entries) - 1)), entries[Len(entries)])

Slice(entries, n) == SubSeq(entries, 1, IF Len(entries) < n THEN Len(entries) ELSE n)

SelectTopTraders(ledger) == Slice(SortByProfit(Filter(ledger)), TOP_TRADERS)

----------------------------------------------------------------------------
(* RateLimitedClient: withRetry, lines 48-63.  The operation is given as   *)
(* the sequence of outcomes its successive invocations produce.            *)

Ok(value) == [ ok |-> TRUE, value |-> value ]
Fail(error) == [ ok |-> FALSE, error |-> error ]

RECURSIVE Pow2(_)
Pow2(n) == IF n = 0 THEN 1 ELSE 2 * Pow2(n - 1)

\* line 53
BackoffDelay(retryCount) == INITIAL_BACKOFF * Pow2(retryCount)

\* ShouldRetry with one retry more
ShouldRetryInclusive(error, retryCount) == error.is429 /\ retryCount <= MAX_RETRIES

\* ShouldRetry without the test of the error's class
ShouldRetryAnyError(error, retryCount) == retryCount < MAX_RETRIES

\* line 52
ShouldRetry(error, retryCount) == error.is429 /\ retryCount < MAX_RETRIES

\* The result carries what the call did: attempts is the number of
\* invocations of the operation, sleeps the backoff waits in order, last the
\* outcome of the final invocation.
RECURSIVE withRetry(_, _)
withRetry(operation, retryCount) ==
    LET outcome == Head(operation)
    IN  IF outcome.ok
        THEN [ status |-> "returned", value |-> outcome.value,
               attempts |-> 1, sleeps |-> << >>, last |-> outcome ]
        ELSE IF ShouldRetry(outcome.error, retryCount)
        THEN LET rest == withRetry(Tail(operation), retryCount + 1)
             IN  [ rest EXCEPT !.attempts = @ + 1,
                               !.sleeps = << BackoffDelay(retryCount) >> \o @ ]
        ELSE [ status |-> "thrown", error |-> outcome.error,
               attempts |-> 1, sleeps |-> << >>, last |-> outcome ]

\* the operations the pipeline runs under withRetry: a run of rate-limit
\* failures, then a result out of values or an error of the other class; or
\* MAX_RETRIES + 1 rate-limit failures, which use the allowance up
RateLimitedRuns(n) == [ i \in 1 .. n |-> Fail(Error(TRUE, 1)) ]

\* lengths of the runs: none, and as many as withRetry retries
RateLimitCounts == { 0, MAX_RETRIES }

Operations(values) ==
    { RateLimitedRuns(n) \o << final >> :
        n \in RateLimitCounts,
        final \in { Ok(v) : v \in values } \cup { Fail(Error(FALSE, 1)) } }
    \cup { RateLimitedRuns(MAX_RETRIES + 1) }

----------------------------------------------------------------------------
(* Waits and provider calls, in the order the program makes them *)

Sleep(ms) == [ kind |-> "sleep", ms |-> ms ]
Call == [ kind |-> "call", ms |-> 0 ]

\* a withRetry call: the operation runs, and runs again after each backoff
RECURSIVE AfterSleeps(_)
AfterSleeps(sleeps) ==
    IF sleeps = << >> THEN << >>
    ELSE << Sleep(Head(sleeps)), Call >> \o AfterSleeps(Tail(sleeps))

CallEvents(result) == << Call >> \o AfterSleeps(result.sleeps)

\* line 185
WindowEvents == << Sleep(BASE_DELAY) >>

\* lines 199-201, and line 302 when the loop body runs to its end
PageEvents(result, toEnd) ==
    CallEvents(result) \o (IF toEnd THEN << Sleep(BASE_DELAY) >> ELSE << >>)

\* TransactionEvents without the sleep of line 237
TransactionEventsNoSleep(result) == CallEvents(result)

\* lines 237-242
TransactionEvents(result) == << Sleep(BASE_DELAY) >> \o CallEvents(result)

\* lines 331-332
BalanceEvents == << Sleep(BASE_DELAY), Call >>

\* line 302, after an intermediate report
SnapshotEndEvents == << Sleep(BASE_DELAY) >>

Max(a, b) == IF a > b THEN a ELSE b

\* spacing is [ wait, ok, called ]: the longest single wait since the last
\* provider call, whether every call so far came after a wait of at least
\* BASE_DELAY since the call before it, whether a call was made at all
RECURSIVE Spacing(_, _)
Spacing(spacing, events) ==
    IF events = << >> THEN spacing
    ELSE LET e == Head(events)
         IN  Spacing(
                IF e.kind = "sleep"
                THEN [ spacing EXCEPT !.wait = Max(@, e.ms) ]
                ELSE [ wait |-> 0,
                       ok |-> spacing.ok /\ (~ spacing.called \/ spacing.wait >= BASE_DELAY),
                       called |-> TRUE ],
                Tail(events))

----------------------------------------------------------------------------
(* State of trackProfitablePumpFunTraders *)

VARIABLES
    pc,               \* the loop head or call the function has reached
    solPrice,         \* line 163
    period,           \* index into TIME_PERIODS of the window being processed
    profitTraders,    \* the ledger, line 169
    allSignatures,    \* line 188
    lastSignature,    \* line 189, the before-cursor
    keepFetching,     \* line 190
    totalFetched,     \* line 191
    idx,              \* position of the for-of loop of line 235
    eligibleTraders,  \* displayResults, line 320
    dispIdx,          \* position of the loop of line 330
    dispFinal,        \* displayResults was called from line 307 (not 298)
    exitCode,         \* exit status of the process, -1 while it runs
    operation,        \* withRetry on its own: the operation it is given
    callResult,       \* withRetry on its own: what the call produced
    txInput,          \* the ledger update on its own: the transaction
    ledgerBefore,     \* the ledger update on its own: the ledger it started from
    \* history of the run, not read by the program
    nextSig,          \* signatures the provider has returned in this window, plus 1
    fetchCount,       \* per signature: times the loop body of line 235 ran for it
    attributed,       \* owners credited with a nonzero pair in this window
    prevLedgerSize,   \* records the previous window's final report was made from
    longestWait,      \* longest single wait since the last provider call
    spacingOk,        \* every provider call came BASE_DELAY or more after the last
    called,           \* a provider call has been made
    reported,         \* a report has been written
    lastCall,         \* how the withRetry call ended whose error is being handled
    fatal,            \* the catch of line 312 has run
    stopSeen,         \* an empty or out-of-window page came back in this window
    windowsStarted    \* times the body of the loop of line 181 was entered

vars == << pc, solPrice, period, profitTraders, allSignatures, lastSignature,
           keepFetching, totalFetched, idx, eligibleTraders, dispIdx, dispFinal,
           exitCode, operation, callResult, txInput, ledgerBefore, nextSig,
           fetchCount, attributed, prevLedgerSize, longestWait, spacingOk, called,
           reported, lastCall, fatal, stopSeen, windowsStarted >>

windowVars == << allSignatures, lastSignature, keepFetching, totalFetched >>
displayVars == << eligibleTraders, dispIdx, dispFinal >>
retryVars == << operation, callResult >>
applyVars == << txInput, ledgerBefore >>
sigHistory == << nextSig, fetchCount >>
spacingVars == << longestWait, spacingOk, called >>

\* getSolPrice: the quoted price, or 0 when the request failed
SolPrices == { 0, 2 }

\* getWalletSolBalance: the balance, or 0 when the request failed
Balances == 0 .. MaxBalance

NoCall == [ status |-> "none" ]

\* the values every specification starts the pipeline's variables from
PipelineIdle ==
    /\ period = 1
    /\ allSignatures = << >>
    /\ lastSignature = NoSignature
    /\ keepFetching = TRUE
    /\ totalFetched = 0
    /\ idx = 1
    /\ eligibleTraders = << >>
    /\ dispIdx = 1
    /\ dispFinal = FALSE
    /\ exitCode = -1
    /\ nextSig = 1
    /\ fetchCount = << >>
    /\ prevLedgerSize = 0
    /\ longestWait = 0
    /\ spacingOk = TRUE
    /\ called = FALSE
    /\ reported = FALSE
    /\ lastCall = "none"
    /\ fatal = FALSE
    /\ stopSeen = FALSE
    /\ windowsStarted = 0

Init ==
    /\ pc = "start"
    /\ solPrice = 0
    /\ period = 1
    /\ profitTraders = << >>
    /\ allSignatures = << >>
    /\ lastSignature = NoSignature
    /\ keepFetching = TRUE
    /\ totalFetched = 0
    /\ idx = 1
    /\ eligibleTraders = << >>
    /\ dispIdx = 1
    /\ dispFinal = FALSE
    /\ exitCode = -1
    /\ operation = << >>
    /\ callResult = NoCall
    /\ txInput = NullTx
    /\ ledgerBefore = << >>
    /\ nextSig = 1
    /\ fetchCount = << >>
    /\ attributed = { }
    /\ prevLedgerSize = 0
    /\ longestWait = 0
    /\ spacingOk = TRUE
    /\ called = FALSE
    /\ reported = FALSE
    /\ lastCall = "none"
    /\ fatal = FALSE
    /\ stopSeen = FALSE
    /\ windowsStarted = 0

\* the waits and calls of a step are added to the history
Record(events) ==
    LET spacing == Spacing([ wait |-> longestWait, ok |-> spacingOk, called |-> called ],
                           events)
    IN  /\ longestWait' = spacing.wait
        /\ spacingOk' = spacing.ok
        /\ called' = spacing.called

\* how a withRetry call ended: with its value, or with the error of line 61,
\* which is a rate-limit error after the last retry or an error of the other
\* class
Ending(result) ==
    IF result.status = "returned" THEN "none"
    ELSE IF result.error.is429 THEN "exhausted"
    ELSE "failed"

----------------------------------------------------------------------------
(* Start-up, lines 158-167 *)

\* Start without the test of line 164
StartAnyPrice ==
    /\ pc = "start"
    /\ \E price \in SolPrices :
          /\ solPrice' = price
          /\ pc' = "window"
    /\ UNCHANGED << period, profitTraders, windowVars, idx, displayVars, exitCode,
                    retryVars, applyVars, sigHistory, attributed, prevLedgerSize,
                    spacingVars, reported, lastCall, fatal, stopSeen,
                    windowsStarted >>

Start ==
    /\ pc = "start"
    /\ \E price \in SolPrices :
          /\ solPrice' = price
          /\ pc' = IF price = 0 THEN "done" ELSE "window"
    /\ UNCHANGED << period, profitTraders, windowVars, idx, displayVars, exitCode,
                    retryVars, applyVars, sigHistory, attributed, prevLedgerSize,
                    spacingVars, reported, lastCall, fatal, stopSeen,
                    windowsStarted >>

(* SignaturePaginator, lines 181-227 *)

\* lines 181-191: the next window starts
BeginWindow ==
    /\ pc = "window"
    /\ allSignatures' = << >>
    /\ lastSignature' = NoSignature
    /\ keepFetching' = TRUE
    /\ totalFetched' = 0
    /\ nextSig' = 1
    /\ fetchCount' = << >>
    /\ stopSeen' = FALSE
    /\ windowsStarted' = windowsStarted + 1
    /\ lastCall' = "none"
    /\ Record(WindowEvents)
    /\ pc' = "loop"
    /\ UNCHANGED << solPrice, period, profitTraders, idx, displayVars, exitCode,
                    retryVars, applyVars, attributed, prevLedgerSize, reported, fatal >>

\* line 193
LoopCondition == keepFetching /\ totalFetched < MAX_TRANSACTIONS_PER_INTERVAL

\* the pages getSignaturesForAddress may return with limit BATCH_SIZE: fresh
\* signatures, any blockTime on each
Pages(first) ==
    UNION { { [ i \in 1 .. n |-> [ signature |-> first + i - 1, blockTime |-> times[i] ] ] :
                times \in [ 1 .. n -> BlockTimes ] } : n \in 0 .. BATCH_SIZE }

\* lines 207 and 211
TimeOf(sig) == IF sig.blockTime # NoBlockTime THEN sig.blockTime * 1000 ELSE 0

InWindow(sig, ms) == TimeOf(sig) >= Now - ms

\* lines 210-213
RECURSIVE ValidSignatures(_, _)
ValidSignatures(signatures, ms) ==
    IF signatures = << >> THEN << >>
    ELSE IF InWindow(Head(signatures), ms)
         THEN << Head(signatures) >> \o ValidSignatures(Tail(signatures), ms)
         ELSE ValidSignatures(Tail(signatures), ms)

\* BeyondWindow with the test of line 208 never true
BeyondWindowNever(signatures, ms) == FALSE

\* line 208
BeyondWindow(signatures, ms) == TimeOf(signatures[Len(signatures)]) < Now - ms

\* lines 208-219: what the page adds to allSignatures
Accumulate(signatures, ms) ==
    IF BeyondWindow(signatures, ms) THEN ValidSignatures(signatures, ms) ELSE signatures

\* line 230
SnapshotDue(fetched, keep) == fetched % SNAPSHOT_EVERY = 0 \/ ~ keep

\* lines 203-230 and 302: the page withRetry returned is taken in
HandlePage(signatures) ==
    LET ms == TIME_PERIODS[period]
    IN  IF Len(signatures) = 0
        THEN /\ pc' = "final"
             /\ UNCHANGED << windowVars, idx >>
        ELSE LET fetched == totalFetched + Len(signatures)
                 keep == /\ ~ BeyondWindow(signatures, ms)
                         /\ fetched < MAX_TRANSACTIONS_PER_INTERVAL
             IN  /\ allSignatures' = allSignatures \o Accumulate(signatures, ms)
                 /\ lastSignature' = IF BeyondWindow(signatures, ms) THEN lastSignature
                                     ELSE signatures[Len(signatures)].signature
                 /\ totalFetched' = fetched
                 /\ keepFetching' = keep
                 /\ idx' = 1
                 /\ pc' = IF SnapshotDue(fetched, keep) THEN "txLoop" ELSE "loop"

\* the page ends the pagination of the window: it is empty, or its oldest
\* (last) entry is older than the window
StopPage(signatures, ms) ==
    \/ Len(signatures) = 0
    \/ TimeOf(signatures[Len(signatures)]) < Now - ms

\* lines 193-230: one turn of the pagination loop; an error withRetry throws
\* reaches the catch of line 312
FetchPage ==
    /\ pc = "loop"
    /\ LoopCondition
    /\ \E op \in Operations(Pages(nextSig)) :
          LET result == withRetry(op, 0)
          IN  /\ lastCall' = Ending(result)
              /\ IF result.status = "returned"
                 THEN /\ HandlePage(result.value)
                      /\ nextSig' = nextSig + Len(result.value)
                      /\ fetchCount' = fetchCount \o [ i \in 1 .. Len(result.value) |-> 0 ]
                      /\ stopSeen' = StopPage(result.value, TIME_PERIODS[period])
                      /\ Record(PageEvents(result, pc' = "loop"))
                 ELSE /\ pc' = "caught"
                      /\ Record(PageEvents(result, FALSE))
                      /\ UNCHANGED << windowVars, idx, sigHistory, stopSeen >>
    /\ prevLedgerSize' = 0
    /\ UNCHANGED << solPrice, period, profitTraders, displayVars, exitCode, retryVars,
                    applyVars, attributed, reported, fatal, windowsStarted >>

\* line 193 is false: the loop is left
ExitLoop ==
    /\ pc = "loop"
    /\ ~ LoopCondition
    /\ pc' = "final"
    /\ lastCall' = "none"
    /\ UNCHANGED << solPrice, period, profitTraders, windowVars, idx, displayVars,
                    exitCode, retryVars, applyVars, sigHistory, attributed,
                    prevLedgerSize, spacingVars, reported, fatal, stopSeen,
                    windowsStarted >>

----------------------------------------------------------------------------
(* Per-transaction processing, lines 234-294 *)

\* AfterTransaction with the ledger lost when the fetch fails
AfterTransactionReset(ledger, result) ==
    IF result.status = "returned" THEN ApplyTransaction(ledger, result.value)
    ELSE << >>

\* lines 238-293: the ledger after the try block; the catch of line 290
\* leaves it as it is
AfterTransaction(ledger, result) ==
    IF result.status = "returned" THEN ApplyTransaction(ledger, result.value)
    ELSE ledger

\* lines 235-289: one turn of the for-of loop, up to the end of the try
\* block or to the statement that throws
ProcessTransaction ==
    /\ pc = "txLoop"
    /\ idx <= Len(allSignatures)
    /\ \E op \in Operations(TxInputs) :
          LET result == withRetry(op, 0)
              sig == allSignatures[idx].signature
          IN  /\ fetchCount' = [ fetchCount EXCEPT ![sig] = @ + 1 ]
              /\ lastCall' = Ending(result)
              /\ Record(TransactionEvents(result))
              /\ profitTraders' = AfterTransaction(profitTraders, result)
              /\ attributed' = IF result.status = "returned"
                               THEN attributed \cup Attributed(result.value)
                               ELSE attributed
              /\ pc' = IF result.status = "returned" THEN "txLoop" ELSE "txCatch"
              /\ idx' = IF result.status = "returned" THEN idx + 1 ELSE idx
    /\ UNCHANGED << solPrice, period, windowVars, displayVars, exitCode, retryVars,
                    applyVars, nextSig, prevLedgerSize, reported, fatal, stopSeen,
                    windowsStarted >>

\* lines 290-293: whatever the try block threw is logged, and the loop takes
\* the next signature
TransactionCatch ==
    /\ pc = "txCatch"
    /\ lastCall' = "none"
    /\ idx' = idx + 1
    /\ pc' = "txLoop"
    /\ UNCHANGED << solPrice, period, profitTraders, windowVars, displayVars,
                    exitCode, retryVars, applyVars, sigHistory, attributed,
                    prevLedgerSize, spacingVars, reported, fatal, stopSeen,
                    windowsStarted >>

----------------------------------------------------------------------------
(* Reports: displayResults, lines 318-370, and its two call sites *)

\* lines 296-298: the pass is over, displayResults selects its traders
IntermediateReport ==
    /\ pc = "txLoop"
    /\ idx > Len(allSignatures)
    /\ eligibleTraders' = SelectTopTraders(profitTraders)
    /\ dispIdx' = 1
    /\ dispFinal' = FALSE
    /\ idx' = 1
    /\ lastCall' = "none"
    /\ pc' = "display"
    /\ UNCHANGED << solPrice, period, profitTraders, windowVars, exitCode, retryVars,
                    applyVars, sigHistory, attributed, prevLedgerSize, spacingVars,
                    reported, fatal, stopSeen, windowsStarted >>

\* lines 305-307
FinalReport ==
    /\ pc = "final"
    /\ eligibleTraders' = SelectTopTraders(profitTraders)
    /\ dispIdx' = 1
    /\ dispFinal' = TRUE
    /\ lastCall' = "none"
    /\ pc' = "display"
    /\ UNCHANGED << solPrice, period, profitTraders, windowVars, idx, exitCode,
                    retryVars, applyVars, sigHistory, attributed, prevLedgerSize,
                    spacingVars, reported, fatal, stopSeen, windowsStarted >>

\* lines 332-333: data is the record object the ledger holds
Enrich(data, balance, price) ==
    [ data EXCEPT !.solBalance = balance, !.usdProfit = data.profit * price ]

\* lines 330-334: after sleep(BASE_DELAY), one balance lookup
DisplayBalance ==
    /\ pc = "display"
    /\ dispIdx <= Len(eligibleTraders)
    /\ \E balance \in Balances :
          LET address == eligibleTraders[dispIdx].address
              k == TraderIndex(profitTraders, address)
          IN  /\ profitTraders' = [ profitTraders EXCEPT ![k] = Enrich(@, balance, solPrice) ]
              /\ eligibleTraders' = [ eligibleTraders EXCEPT ![dispIdx] = Enrich(@, balance, solPrice) ]
    /\ dispIdx' = dispIdx + 1
    /\ Record(BalanceEvents)
    /\ UNCHANGED << pc, solPrice, period, windowVars, idx, dispFinal, exitCode,
                    retryVars, applyVars, sigHistory, attributed, prevLedgerSize,
                    reported, lastCall, fatal, stopSeen, windowsStarted >>

\* ClearedLedger with the reset left out
KeptLedger(ledger) == ledger

\* line 310
ClearedLedger(ledger) == << >>

\* NextPeriod with the loop of line 181 staying on its entry
SamePeriod(p) == p

\* line 181: for-of takes the next entry of TIME_PERIODS
NextPeriod(p) == p + 1

\* lines 336-369, then line 302 (intermediate) or lines 310-311 (final)
DisplayDone ==
    /\ pc = "display"
    /\ dispIdx > Len(eligibleTraders)
    /\ eligibleTraders' = << >>
    /\ dispIdx' = 1
    /\ dispFinal' = FALSE
    /\ reported' = TRUE
    /\ IF dispFinal
       THEN \* the window's locals go out of scope with the loop body
            /\ profitTraders' = ClearedLedger(profitTraders)
            /\ attributed' = { }
            /\ prevLedgerSize' = Len(profitTraders)
            /\ allSignatures' = << >>
            /\ lastSignature' = NoSignature
            /\ keepFetching' = TRUE
            /\ totalFetched' = 0
            /\ nextSig' = 1
            /\ fetchCount' = << >>
            /\ stopSeen' = FALSE
                    /\ period' = NextPeriod(period)
            /\ pc' = IF period < Len(TIME_PERIODS) THEN "window" ELSE "done"
            /\ UNCHANGED spacingVars
       ELSE /\ pc' = "loop"
            /\ Record(SnapshotEndEvents)
            /\ UNCHANGED << profitTraders, attributed, prevLedgerSize, period,
                            windowVars, sigHistory, stopSeen >>
    /\ UNCHANGED << solPrice, idx, exitCode, retryVars, applyVars, lastCall, fatal,
                    windowsStarted >>

----------------------------------------------------------------------------
(* The ends of the run *)

\* lines 312-314: the error is logged and the function returns
OuterCatch ==
    /\ pc = "caught"
    /\ fatal' = TRUE
    /\ pc' = "done"
    /\ UNCHANGED << solPrice, period, profitTraders, windowVars, idx, displayVars,
                    exitCode, retryVars, applyVars, sigHistory, attributed,
                    prevLedgerSize, spacingVars, reported, lastCall, stopSeen,
                    windowsStarted >>

\* src/index.ts: the promise of trackProfitablePumpFunTraders has settled.
\* Only a rejection reaches process.exit(1); the function returns from every
\* path, so the promise is fulfilled and the process ends with status 0.
ProcessExit ==
    /\ pc = "done"
    /\ exitCode' = 0
    /\ pc' = "exited"
    /\ UNCHANGED << solPrice, period, profitTraders, windowVars, idx, displayVars,
                    retryVars, applyVars, sigHistory, attributed, prevLedgerSize,
                    spacingVars, reported, lastCall, fatal, stopSeen,
                    windowsStarted >>

----------------------------------------------------------------------------

Next ==
    \/ Start
    \/ BeginWindow
    \/ FetchPage
    \/ ExitLoop
    \/ ProcessTransaction
    \/ TransactionCatch
    \/ IntermediateReport
    \/ FinalReport
    \/ DisplayBalance
    \/ DisplayDone
    \/ OuterCatch
    \/ ProcessExit

Spec == Init /\ [][Next]_vars

----------------------------------------------------------------------------
(* withRetry on its own: the operation's i-th invocation returns the value *)
(* i, or throws an error with id i of either class                         *)

OutcomeOf(kind, i) ==
    IF kind = "ok" THEN Ok(i)
    ELSE Fail(Error(kind = "rateLimited", i))

RetryInputs ==
    { [ i \in 1 .. MAX_RETRIES + 2 |-> OutcomeOf(kinds[i], i) ] :
        kinds \in [ 1 .. MAX_RETRIES + 2 -> { "ok", "rateLimited", "other" } ] }

InitRetry ==
    /\ pc = "retry"
    /\ operation \in RetryInputs
    /\ callResult = NoCall
    /\ profitTraders = << >>
    /\ attributed = { }
    /\ txInput = NullTx
    /\ ledgerBefore = << >>
    /\ solPrice = 0
    /\ PipelineIdle

RunWithRetry ==
    /\ pc = "retry"
    /\ callResult' = withRetry(operation, 0)
    /\ pc' = "retried"
    /\ UNCHANGED << solPrice, period, profitTraders, windowVars, idx, displayVars,
                    exitCode, operation, applyVars, sigHistory, attributed,
                    prevLedgerSize, spacingVars, reported, lastCall, fatal,
                    stopSeen, windowsStarted >>

NextRetry == RunWithRetry

SpecRetry == InitRetry /\ [][NextRetry]_vars

----------------------------------------------------------------------------
(* displayResults on its own: the final report of the first window, made   *)
(* from any ledger of NumRankWallets wallets                               *)

\* a record that passes the three tests; profits repeat and are not ordered
GoodRecord(i) ==
    [ address |-> i, profit |-> ((i * 7) % 5) + 1, trades |-> 4, totalVolume |-> 8,
      successfulTrades |-> 3, averageTradeSize |-> << 2, 1 >>,
      solBalance |-> 0, usdProfit |-> 0 ]

\* a record that fails exactly one of the three tests
BadRecord(i) ==
    CASE i % 4 = 0 -> [ GoodRecord(i) EXCEPT !.trades = 2, !.successfulTrades = 2,
                                             !.totalVolume = 4 ]
      [] i % 4 = 1 -> [ GoodRecord(i) EXCEPT !.successfulTrades = 2, !.profit = 10 ]
      [] i % 4 = 2 -> [ GoodRecord(i) EXCEPT !.profit = 0 ]
      [] OTHER     -> [ GoodRecord(i) EXCEPT !.profit = -3 ]

RankLedgers ==
    { [ i \in 1 .. NumRankWallets |-> IF good[i] THEN GoodRecord(i) ELSE BadRecord(i) ] :
        good \in [ 1 .. NumRankWallets -> BOOLEAN ] }

InitRank ==
    /\ pc = "final"
    /\ profitTraders \in RankLedgers
    /\ operation = << >>
    /\ callResult = NoCall
    /\ txInput = NullTx
    /\ ledgerBefore = << >>
    /\ attributed = { profitTraders[k].address : k \in 1 .. Len(profitTraders) }
    /\ solPrice = 2
    /\ PipelineIdle

NextRank == FinalReport

SpecRank == InitRank /\ [][NextRank]_vars

----------------------------------------------------------------------------
(* The ledger update on its own: one transaction, as getTransaction may     *)
(* return it, is applied to a ledger                                       *)

\* an index-aligned pair: the owner of the pre entry, the amounts 1 before
\* and 1 + delta after, and which of the two entries carries an amount
PairKinds ==
    { [ owner |-> o, delta |-> d, shape |-> "full" ] :
        o \in { NoOwner, 1, 2 }, d \in { -1, 0, 2 } }
    \cup { [ owner |-> 1, delta |-> 2, shape |-> sh ] : sh \in { "noPre", "noPost" } }

PairLists == UNION { [ 1 .. n -> PairKinds ] : n \in 0 .. MaxPairs }

PreTokens(pairs) ==
    [ i \in 1 .. Len(pairs) |-> Tok(pairs[i].owner, pairs[i].shape # "noPre", 1) ]

PostTokens(pairs) ==
    [ i \in 1 .. Len(pairs) |->
        Tok(pairs[i].owner, pairs[i].shape # "noPost", 1 + pairs[i].delta) ]

\* post may be the shorter list
DropLast(seq) == IF seq = << >> THEN seq ELSE SubSeq(seq, 1, Len(seq) - 1)

\* native balances before and after: none, unchanged, a dust change, a
\* change of 2, a change of 3 next to a dust change
NativeBalances ==
    { << << >>, << >> >>, << << 5 >>, << 5 >> >>, << << 5 >>, << 4 >> >>,
      << << 5 >>, << 3 >> >>, << << 5, 8 >>, << 2, 9 >> >> }

\* what of the response is there
Presences == { "null", "noMeta", "noPreTok", "noPostTok", "noBalances", "full" }

ApplyInputs ==
    { MkTx(presence # "null", presence \notin { "null", "noMeta" },
           presence # "noPreTok", PreTokens(pairs),
           presence # "noPostTok",
           IF short THEN DropLast(PostTokens(pairs)) ELSE PostTokens(pairs),
           presence # "noBalances", native[1], native[2]) :
        presence \in Presences, pairs \in PairLists, short \in BOOLEAN,
        native \in NativeBalances }

\* a record earlier transactions have left in the ledger
PriorRecord(address) ==
    [ address |-> address, profit |-> 3, trades |-> 2, totalVolume |-> 5,
      successfulTrades |-> 1, averageTradeSize |-> Quotient(5, 2),
      solBalance |-> 1, usdProfit |-> 6 ]

ApplyLedgers ==
    { << >>, << PriorRecord(1) >>, << PriorRecord(2), PriorRecord(1) >> }

InitApply ==
    /\ pc = "apply"
    /\ txInput \in ApplyInputs
    /\ ledgerBefore \in ApplyLedgers
    /\ profitTraders = ledgerBefore
    /\ operation = << >>
    /\ callResult = NoCall
    /\ attributed = { }
    /\ solPrice = 2
    /\ PipelineIdle

\* lines 244-284 for the transaction the fetch returned
ApplyAlone ==
    /\ pc = "apply"
    /\ profitTraders' = ApplyTransaction(profitTraders, txInput)
    /\ attributed' = Attributed(txInput)
    /\ pc' = "applied"
    /\ UNCHANGED << solPrice, period, windowVars, idx, displayVars, exitCode,
                    retryVars, applyVars, sigHistory, prevLedgerSize, spacingVars,
                    reported, lastCall, fatal, stopSeen, windowsStarted >>

NextApply == ApplyAlone

SpecApply == InitApply /\ [][NextApply]_vars

----------------------------------------------------------------------------
(* Properties *)

LedgerAddresses == { profitTraders[k].address : k \in 1 .. Len(profitTraders) }

Accumulated == { allSignatures[i].signature : i \in 1 .. Len(allSignatures) }

\* the first k - 1 invocations of the operation fail as rate-limited
RateLimitedBefore(k) ==
    \A j \in 1 .. k - 1 : ~ operation[j].ok /\ operation[j].error.is429

\* C1: within one window the loop body of line 235 (fetch, classification,
\* ledger update) runs at most once for each accumulated signature, also
\* across an intermediate snapshot and the later passes of the window.
C1_ProcessedAtMostOnce ==
    \A s \in Accumulated : fetchCount[s] <= 1

\* C2: when the final report of a window is produced (displayResults called
\* from line 307), every signature accumulated for the window has been
\* fetched and passed through classification and aggregation.
C2_AllProcessedAtFinalReport ==
    (pc = "display" /\ dispFinal) => \A s \in Accumulated : fetchCount[s] >= 1

\* C3: the number of signatures accumulated for a window never exceeds
\* MAX_TRANSACTIONS_PER_INTERVAL.
C3_AccumulatedWithinCap ==
    Len(allSignatures) <= MAX_TRANSACTIONS_PER_INTERVAL

\* C4: no signature whose timestamp (0 when blockTime is missing) is older
\* than now - windowDurationMs is accumulated for the window.
C4_AccumulatedInWindow ==
    \A i \in 1 .. Len(allSignatures) : InWindow(allSignatures[i], TIME_PERIODS[period])

\* C5: the ledger is empty when the first signature page of a window is
\* about to be requested.
C5_LedgerEmptyAtWindowStart ==
    (pc \in { "window", "loop" } /\ totalFetched = 0) => profitTraders = << >>

\* a later window is about to request its first page, and the window before
\* it ended with records in the ledger
C5_Witness ==
    /\ pc = "loop" /\ totalFetched = 0 /\ period > 1
    /\ prevLedgerSize > 0

\* C6: the sequence displayResults selects holds only records with
\* trades >= MIN_TRADES, profit > 0 and successfulTrades / trades > 0.5, is
\* in descending order of profit and has at most 10 entries.
C6_SelectionFilteredSortedCapped ==
    pc = "display" =>
        /\ Len(eligibleTraders) <= 10
        /\ \A k \in 1 .. Len(eligibleTraders) :
              /\ eligibleTraders[k].trades >= 3
              /\ eligibleTraders[k].profit > 0
              /\ 2 * eligibleTraders[k].successfulTrades > eligibleTraders[k].trades
        /\ \A k \in 1 .. Len(eligibleTraders) - 1 :
              eligibleTraders[k].profit >= eligibleTraders[k + 1].profit

\* eleven records pass the tests and ten are selected, while a record with a
\* win rate of exactly 0.5 is in the ledger
C6_Witness ==
    /\ pc = "display"
    /\ Len(eligibleTraders) = 10
    /\ Cardinality({ k \in 1 .. Len(profitTraders) :
                       /\ profitTraders[k].trades >= 3
                       /\ profitTraders[k].profit > 0
                       /\ 2 * profitTraders[k].successfulTrades > profitTraders[k].trades }) = 11
    /\ \E k \in 1 .. Len(profitTraders) :
          /\ 2 * profitTraders[k].successfulTrades = profitTraders[k].trades
          /\ profitTraders[k].profit > 0

\* C7: every ledger record has trades >= 1, trades >= successfulTrades >= 0
\* and totalVolume >= 0, and an address has a record iff a pair with a
\* nonzero delta has been attributed to it in the current window.
C7_RecordsWellFormed ==
    /\ \A k \in 1 .. Len(profitTraders) :
          /\ profitTraders[k].trades >= 1
          /\ profitTraders[k].trades >= profitTraders[k].successfulTrades
          /\ profitTraders[k].successfulTrades >= 0
          /\ profitTraders[k].totalVolume >= 0
    /\ LedgerAddresses = attributed

\* owner 1 has won and lost, and owner 2, seen only in a pair with delta 0,
\* has no record
C7_Witness ==
    /\ Len(profitTraders) = 1
    /\ profitTraders[1].trades >= 2
    /\ profitTraders[1].successfulTrades >= 1
    /\ pc = "txLoop"

\* C8: every ledger record satisfies averageTradeSize * trades = totalVolume.
C8_AverageTimesTradesIsVolume ==
    \A k \in 1 .. Len(profitTraders) :
        profitTraders[k].averageTradeSize[1] * profitTraders[k].trades
            = profitTraders[k].totalVolume * profitTraders[k].averageTradeSize[2]

\* a record updated several times with different trade values: its average
\* is not a whole number
C8_Witness ==
    \E k \in 1 .. Len(profitTraders) :
        /\ profitTraders[k].trades >= 2
        /\ profitTraders[k].averageTradeSize[2] > 1

\* C9, as claimed: withRetry runs the operation at most MAX_RETRIES times,
\* and a success of attempt k is returned without a further attempt.
C9_AtMostMaxRetriesAttempts ==
    pc = "retried" =>
        /\ callResult.attempts <= MAX_RETRIES
        /\ \A k \in 1 .. MAX_RETRIES :
              (RateLimitedBefore(k) /\ operation[k].ok) =>
                  /\ callResult.status = "returned"
                  /\ callResult.value = operation[k].value
                  /\ callResult.attempts = k

\* C9, amended: withRetry runs the operation at most MAX_RETRIES + 1 times
\* (one attempt and MAX_RETRIES retries), and a success of attempt k is
\* returned without a further attempt.
C9_AtMostMaxRetriesPlusOneAttempts ==
    pc = "retried" =>
        /\ callResult.attempts <= MAX_RETRIES + 1
        /\ \A k \in 1 .. MAX_RETRIES + 1 :
              (RateLimitedBefore(k) /\ operation[k].ok) =>
                  /\ callResult.status = "returned"
                  /\ callResult.value = operation[k].value
                  /\ callResult.attempts = k

\* five rate-limit failures, then the sixth attempt succeeds and is returned
C9_Witness ==
    /\ pc = "retried"
    /\ callResult.status = "returned"
    /\ callResult.attempts = MAX_RETRIES + 1

\* C10: a failure that is not rate-limited is rethrown at once: the failing
\* attempt is the last one and no backoff wait follows it (one attempt and
\* no wait when it is the first attempt); a rate-limited failure with the
\* retry allowance used up is rethrown as the error of the last attempt.
C10_ErrorsRethrown ==
    pc = "retried" =>
        /\ (~ operation[1].ok /\ ~ operation[1].error.is429) =>
              /\ callResult.attempts = 1
              /\ callResult.sleeps = << >>
        /\ \A k \in 1 .. MAX_RETRIES + 1 :
              (RateLimitedBefore(k) /\ ~ operation[k].ok /\ ~ operation[k].error.is429) =>
                  /\ callResult.status = "thrown"
                  /\ callResult.error = operation[k].error
                  /\ callResult.attempts = k
                  /\ Len(callResult.sleeps) = k - 1
        /\ RateLimitedBefore(MAX_RETRIES + 2) =>
              /\ callResult.status = "thrown"
              /\ callResult.error = callResult.last.error
              /\ callResult.error = operation[callResult.attempts].error
              /\ callResult.attempts = MAX_RETRIES + 1

\* the allowance is used up and the error of the last attempt is rethrown
C10_Witness ==
    /\ pc = "retried"
    /\ callResult.status = "thrown"
    /\ callResult.error.is429
    /\ Len(callResult.sleeps) = MAX_RETRIES


(* C11: between any two consecutive calls to the chain data provider
   (signature page, transaction or balance lookup, retried attempts
   included, a window boundary in between or not) the program waits at least
   once for BASE_DELAY or longer.  The calls are events of one sequence, each
   awaited before the next statement runs, so no two are in flight together. *)
C11_WaitBetweenProviderCalls == spacingOk

\* in a window after the first, the second transaction of a pass was fetched
\* with every retry used
C11_Witness ==
    /\ windowsStarted >= 2
    /\ pc = "txCatch"
    /\ idx >= 2
    /\ lastCall = "exhausted"
    /\ spacingOk

(* C12: once the retries of a rate-limited provider call have run out, for
   a signature page or for a transaction, the run is aborted: no later
   transaction is processed and no further window is started. *)
C12_ExhaustedRetriesAbortRun ==
    [][lastCall = "exhausted" => pc' \in { "caught", "done", "exited" }]_vars

(* C13: when a fatal error has ended the run (a signature-page fetch that
   failed with an error of the other class, or after its retries ran out),
   the process ends with a non-zero exit status. *)
C13_FatalErrorExitsNonZero == (fatal /\ exitCode # -1) => exitCode # 0

(* C14: when getSolPrice yields 0 the run ends before any window is
   processed: no provider call is made, the ledger holds no record and no
   report is written. *)
C14_NoPriceNoRun ==
    (pc # "start" /\ solPrice = 0) =>
        /\ pc \in { "done", "exited" }
        /\ ~ called
        /\ windowsStarted = 0
        /\ profitTraders = << >>
        /\ ~ reported

\* the price was 0 and the process has ended
C14_Witness == pc = "exited" /\ solPrice = 0 /\ ~ fatal

\* turns of the loop of line 235 in this window, each with its fetch of line 238
RECURSIVE SumCounts(_)
SumCounts(counts) ==
    IF counts = << >> THEN 0 ELSE Head(counts) + SumCounts(Tail(counts))

TransactionFetches == SumCounts(fetchCount)

(* C15: the transaction fetches issued while one time period is processed
   never number more than MAX_TRANSACTIONS. *)
C15_FetchesWithinMaxTransactions == TransactionFetches <= MAX_TRANSACTIONS

(* C16: a failure of the other class (not a rate limit) while one
   transaction is fetched or classified leaves the ledger as it was before
   that transaction, and the pass goes on: each signature that remains is
   fetched in its turn. *)
C16_TransactionFailureSkipsOnlyThatTransaction ==
    [][/\ (pc' = "txCatch" /\ lastCall' = "failed") =>
             /\ profitTraders' = profitTraders
             /\ allSignatures' = allSignatures
       /\ (pc = "txCatch" /\ lastCall = "failed") =>
             /\ profitTraders' = profitTraders
             /\ allSignatures' = allSignatures
             /\ pc' = "txLoop"
             /\ idx' = idx + 1
       /\ (pc = "txLoop" /\ idx <= Len(allSignatures)) =>
             /\ pc' \in { "txLoop", "txCatch" }
             /\ fetchCount'[allSignatures[idx].signature]
                   = fetchCount[allSignatures[idx].signature] + 1]_vars

\* a fetch has failed with records in the ledger and a signature still to go
C16_Witness ==
    /\ pc = "txCatch"
    /\ lastCall = "failed"
    /\ profitTraders # << >>
    /\ idx < Len(allSignatures)

Min(a, b) == IF a < b THEN a ELSE b

\* tx has no index-aligned pair of token balances whose amounts differ
NoNonzeroPair(tx) ==
    \A i \in 1 .. Min(Len(tx.preTokenBalances), Len(tx.postTokenBalances)) :
        ~ /\ tx.preTokenBalances[i].hasAmount
          /\ tx.postTokenBalances[i].hasAmount
          /\ tx.postTokenBalances[i].amount # tx.preTokenBalances[i].amount

\* no native balance of tx changes by more than dust
NoTradeValue(tx) ==
    \/ ~ tx.hasBal
    \/ \A i \in 1 .. Min(Len(tx.preBalances), Len(tx.postBalances)) :
          Abs(tx.postBalances[i] - tx.preBalances[i]) <= DUST

(* C17: a fetched transaction that is null, has no meta, lacks one of the
   two token-balance lists, has no index-aligned pair of token balances with
   a nonzero difference, or has a trade value of 0 leaves every record of
   the ledger as it was and creates none. *)
C17_RejectedTransactionLeavesLedger ==
    ( /\ pc = "applied"
      /\ \/ ~ txInput.exists
         \/ ~ txInput.meta
         \/ ~ txInput.hasPreTok
         \/ ~ txInput.hasPostTok
         \/ NoNonzeroPair(txInput)
         \/ NoTradeValue(txInput) )
    => profitTraders = ledgerBefore

\* a transaction with a nonzero pair for an owner and only a dust change of
\* native balance has met a ledger with records
C17_Witness ==
    /\ pc = "applied"
    /\ isTradeTransaction(txInput)
    /\ txInput.hasBal
    /\ txInput.preBalances # txInput.postBalances
    /\ NoTradeValue(txInput)
    /\ ledgerBefore # << >>
    /\ profitTraders = ledgerBefore

\* the index-aligned pairs of tx that have the owner and a nonzero delta
OwnerPairs(tx, owner) ==
    { i \in 1 .. Min(Len(tx.preTokenBalances), Len(tx.postTokenBalances)) :
        /\ tx.preTokenBalances[i].owner = owner
        /\ tx.preTokenBalances[i].hasAmount
        /\ tx.postTokenBalances[i].hasAmount
        /\ tx.postTokenBalances[i].amount # tx.preTokenBalances[i].amount }

Delta(tx, i) == tx.postTokenBalances[i].amount - tx.preTokenBalances[i].amount

RECURSIVE SumDeltas(_, _)
SumDeltas(tx, pairs) ==
    IF pairs = { } THEN 0
    ELSE LET i == CHOOSE j \in pairs : TRUE
         IN  Delta(tx, i) + SumDeltas(tx, pairs \ { i })

\* the record of address, or a fresh one
RecordOf(ledger, address) ==
    IF HasTrader(ledger, address) THEN ledger[TraderIndex(ledger, address)]
    ELSE NewTrader(address)

Owners == { 1, 2 }

(* C18: applying one accepted transaction with trade value v: for each
   index-aligned pair with an owner and a nonzero delta d the owner's record
   gets profit + d, trades + 1, totalVolume + v, and successfulTrades + 1
   exactly when d > 0, so an owner of k such pairs gets k trades and k * v
   volume; the record of every other owner is unchanged and none is added. *)
C18_AcceptedTransactionUpdatesOwners ==
    (pc = "applied" /\ Accepted(txInput)) =>
        LET v == calculateTradeValue(txInput)
        IN  \A o \in Owners :
              LET pairs == OwnerPairs(txInput, o)
                  before == RecordOf(ledgerBefore, o)
                  after == RecordOf(profitTraders, o)
              IN  IF pairs = { }
                  THEN /\ HasTrader(profitTraders, o) <=> HasTrader(ledgerBefore, o)
                       /\ after = before
                  ELSE /\ HasTrader(profitTraders, o)
                       /\ after.profit = before.profit + SumDeltas(txInput, pairs)
                       /\ after.trades = before.trades + Cardinality(pairs)
                       /\ after.totalVolume = before.totalVolume + Cardinality(pairs) * v
                       /\ after.successfulTrades = before.successfulTrades
                             + Cardinality({ i \in pairs : Delta(txInput, i) > 0 })

\* one owner had two pairs, a gain and a loss, and a record before; the other
\* owner's record was not touched
C18_Witness ==
    /\ pc = "applied"
    /\ Accepted(txInput)
    /\ \E o \in Owners :
          /\ Cardinality(OwnerPairs(txInput, o)) = 2
          /\ \E i, j \in OwnerPairs(txInput, o) : Delta(txInput, i) > 0 /\ Delta(txInput, j) < 0
          /\ HasTrader(ledgerBefore, o)
          /\ \E other \in Owners \ { o } :
                HasTrader(ledgerBefore, other) /\ OwnerPairs(txInput, other) = { }

\* lines 194-197: the before-cursor of the next page request, NoSignature
\* for a request without one
Cursor == lastSignature

\* the last signature of the page returned before, NoSignature when this
\* window has had no entry yet
LastReturned == IF nextSig = 1 THEN NoSignature ELSE nextSig - 1

(* C19: within a window the first page is requested without a cursor and
   each later page with the last signature of the page before it as cursor;
   after an empty page, or a page whose oldest entry is older than now minus
   the window's duration, no further page is requested for that window; an
   empty first page ends the window with no transaction processed and an
   empty ledger. *)
C19_PaginationCursorAndStop ==
    /\ (pc = "loop" /\ LoopCondition) => (Cursor = LastReturned /\ ~ stopSeen)
    /\ (stopSeen /\ nextSig = 1) =>
          /\ pc \in { "final", "display" }
          /\ pc = "display" => dispFinal
          /\ allSignatures = << >>
          /\ TransactionFetches = 0
          /\ profitTraders = << >>

\* an out-of-window page came back as a later page of a window; its pass and
\* report are over and the loop head is reached again
C19_Witness ==
    /\ pc = "loop"
    /\ stopSeen
    /\ Cursor # NoSignature
    /\ LastReturned > Cursor
    /\ ~ LoopCondition

\* most steps one report takes after its selection: a balance lookup for
\* each selected trader, then the output
ReportSteps == TOP_TRADERS + 1

\* most signatures allSignatures holds: the page that reaches the cap is
\* taken in whole
MostAccumulated == MAX_TRANSACTIONS_PER_INTERVAL + BATCH_SIZE - 1

\* most steps of one turn of the loop of line 193: the request, a pass over
\* allSignatures (try and catch for each), the selection and the report
TurnSteps == 1 + 2 * MostAccumulated + 1 + ReportSteps

\* most steps from the end of the loop of line 193 to the end of the window
FinalSteps == 1 + 1 + ReportSteps

\* most steps of one window
WindowSteps == 1 + MAX_TRANSACTIONS_PER_INTERVAL * TurnSteps + FinalSteps

\* page requests the loop of line 193 can still make in this window
TurnsLeft ==
    IF LoopCondition THEN MAX_TRANSACTIONS_PER_INTERVAL - totalFetched ELSE 0

\* steps of the report under way
ReportLeft == Len(eligibleTraders) - dispIdx + 1 + 1

\* an upper bound of the steps the run can still take
StepsLeft ==
    LET after == (Len(TIME_PERIODS) - period) * WindowSteps + 2
    IN  CASE pc = "exited" -> 0
          [] pc = "done" -> 1
          [] pc = "caught" -> 2
          [] pc = "start" -> Len(TIME_PERIODS) * WindowSteps + 3
          [] pc = "window" -> after + WindowSteps
          [] pc = "loop" -> after + FinalSteps + TurnsLeft * TurnSteps
          [] pc = "txLoop" ->
                after + FinalSteps + TurnsLeft * TurnSteps
                  + 2 * (Len(allSignatures) - idx + 1) + 1 + ReportSteps
          [] pc = "txCatch" ->
                after + FinalSteps + TurnsLeft * TurnSteps
                  + 2 * (Len(allSignatures) - idx + 1) + ReportSteps
          [] pc = "display" /\ ~ dispFinal ->
                after + FinalSteps + TurnsLeft * TurnSteps + ReportLeft
          [] pc = "final" -> after + FinalSteps - 1
          [] pc = "display" /\ dispFinal -> after + ReportLeft

(* C20: when every provider call returns, the pagination loop of a window
   ends after at most MAX_TRANSACTIONS_PER_INTERVAL page requests (a request
   is made only below the cap, and it ends the loop or raises totalFetched),
   each of the four windows is processed at most once (the k-th entry into
   the loop body is for window k), and the run ends: every step lowers
   StepsLeft, which is never negative. *)
C20_RunTerminates ==
    [][/\ (pc = "loop" /\ LoopCondition) =>
             /\ totalFetched < MAX_TRANSACTIONS_PER_INTERVAL
             /\ \/ pc' \in { "final", "caught" }
                \/ /\ totalFetched' > totalFetched
                   /\ totalFetched' - totalFetched <= BATCH_SIZE
       /\ windowsStarted' # windowsStarted =>
             /\ windowsStarted' = windowsStarted + 1
             /\ windowsStarted' = period
             /\ period' = period
             /\ period <= Len(TIME_PERIODS)
       /\ period' >= period
       /\ StepsLeft' < StepsLeft
       /\ StepsLeft' >= 0]_vars

\* the run has gone through its four windows and the process has ended
C20_Witness ==
    /\ pc = "exited"
    /\ windowsStarted = Len(TIME_PERIODS)
    /\ ~ fatal
    /\ StepsLeft = 0

====
